---- MODULE Spec2Model ----
(***************************************************************************)
(* Operator evaluation engine of observer_ward: Operators::matcher_generic *)
(* and Operators::extractor_generic (engine/src/operators/mod.rs) and the  *)
(* three ClusteredOperator entry points (engine/src/execute.rs).           *)
(*                                                                         *)
(* One ClusteredOperator is evaluated by one call of matcher,              *)
(* matcher_request or matcher_both.  Every iteration of the matcher loop   *)
(* and of the extractor loop is one step of the state machine.             *)
(***************************************************************************)
EXTENDS Integers, Sequences, FiniteSets, TLC

\* ------------------------------------------------------------------ bounds
MaxMatchers == 3
MaxExtractors == 2
MaxBlocks == 2

\* ------------------------------------------------------------- vocabulary
NoName == "<none>"
Kinds == {"Word", "Regex", "Status", "Favicon", "None", "DSL", "Binary", "XPath"}
ReservedKinds == {"None", "DSL", "Binary", "XPath"}
ExtractorKinds == {"Regex", "JSON", "KVal", "XPath", "DSL"}
Conditions == {"Or", "And"}
Parts == {"body", "header"}
\* What a pass reads: the request, the response held by the sink, or the
\* empty default response that stands in for a missing one.
Targets == {"request", "response", "default"}
Template == "tpl"
Info == "info"

VARIABLES
  ops,          \* ClusteredOperator.operators: the Operators blocks
  entry,        \* the entry point called
  respArg,      \* matcher_request's `response` argument is Some
  sinkResp,     \* results.response() is Some
  hasFav,       \* the response's extensions hold the favicon hash map
  unavailable,  \* <<target, part>> pairs whose retrieval fails
  pc,           \* position in the entry point
  pass,         \* the pass that runs: "request" or "response"
  bi,           \* index of the block in the `for operator` loop
  mi,           \* index of the matcher in matcher_generic's loop
  matchers,     \* matcher_generic's local Vec<bool>
  mstat,        \* matcher_generic's return: "run", "ok" or "err"
  ei,           \* index of the extractor in extractor_generic's loop
  result,       \* the block's OperatorResult
  sink,         \* the events pushed to MatchEvent
  origin,       \* history: <<pass, block index>> of every pushed event
  evaluated,    \* history: the matchers whose evaluation was begun
  ct,           \* the ClusterType
  counted,      \* what ClusterType::count returned last; -1 before a call
  loaded        \* history: the templates clustered so far, in their order

\* What a call of an entry point leaves alone.
cfg == <<ops, entry, respArg, sinkResp, hasFav, unavailable, ct, counted, loaded>>
vars == <<ops, entry, respArg, sinkResp, hasFav, unavailable, pc, pass, bi,
          mi, matchers, mstat, ei, result, sink, origin, evaluated,
          ct, counted, loaded>>

\* What ClusterType::count and the clustering leave alone.
evalVars == <<ops, entry, respArg, sinkResp, hasFav, unavailable, pc, pass, bi,
              mi, matchers, mstat, ei, result, sink, origin, evaluated>>

\* --------------------------------------------------------- OperatorResult
EmptyMap == [k \in {} |-> {}]

DefaultResult ==
  [matched |-> FALSE, name |-> {}, matcher_word |-> <<>>,
   extract_result |-> EmptyMap]

is_matched(r) == r.matched

is_extract(r) == DOMAIN r.extract_result # {}

\* ------------------------------------------------------- content accessor
\* Part::get_matcher_word_from_part: TRUE when the part can be produced.
GetMatcherWordFromPart(part, target) == <<target, part>> \notin unavailable

\* ------------------------------------------------------- matcher kinds
\* A matcher m carries `hit`, the targets on which its opaque test
\* (match_word, match_regex, match_favicon, match_status_code) is true, and
\* `word`, the word that test reports.
MatchWord(m, target) ==
  IF target \in m.hit THEN [is_match |-> TRUE, mw |-> <<m.word>>]
  ELSE [is_match |-> FALSE, mw |-> <<>>]

MatchRegex(m, target) ==
  IF target \in m.hit THEN [is_match |-> TRUE, mw |-> <<m.word>>]
  ELSE [is_match |-> FALSE, mw |-> <<>>]

MatchFavicon(m, rx) ==
  IF rx \in m.hit THEN [is_match |-> TRUE, mw |-> <<m.word>>]
  ELSE [is_match |-> FALSE, mw |-> <<>>]

MatchStatusCode(m, rx) == rx \in m.hit

StatusCode(rx) == IF rx = "default" THEN "200" ELSE "404"

\* response.extensions().get::<BTreeMap<String, FaviconMap>>() is Some
HasFaviconMap(rx) == rx = "response" /\ hasFav

NoMatch == [err |-> FALSE, is_match |-> FALSE, mw |-> <<>>]

\* FaviconArm where a missing hash map is a non-match
FaviconArmNoError(m, rx) ==
  IF rx # "none" /\ HasFaviconMap(rx)
    THEN [err |-> FALSE] @@ MatchFavicon(m, rx)
    ELSE NoMatch

FaviconArm(m, rx) ==
  IF rx # "none"
    THEN IF ~HasFaviconMap(rx)
           THEN [err |-> TRUE, is_match |-> FALSE, mw |-> <<>>]
           ELSE [err |-> FALSE] @@ MatchFavicon(m, rx)
    ELSE NoMatch

\* StatusArm where a missing response is an error
StatusArmErr(m, rx) ==
  IF rx # "none"
    THEN [err |-> FALSE, is_match |-> MatchStatusCode(m, rx),
          mw |-> <<StatusCode(rx)>>]
    ELSE [err |-> TRUE, is_match |-> FALSE, mw |-> <<>>]

StatusArm(m, rx) ==
  IF rx # "none"
    THEN [err |-> FALSE, is_match |-> MatchStatusCode(m, rx),
          mw |-> <<StatusCode(rx)>>]
    ELSE NoMatch

\* A reserved kind that is evaluated like a word matcher.
ReservedArmAsWord(m) ==
  [err |-> FALSE, is_match |-> m.hit # {}, mw |-> <<m.word>>]

ReservedArm(m) == NoMatch

\* match &matcher.matcher_type { ... }
MatcherTypeEval(m, target, rx) ==
  CASE m.kind = "Word" -> [err |-> FALSE] @@ MatchWord(m, target)
    [] m.kind = "Favicon" -> FaviconArm(m, rx)
    [] m.kind = "Status" -> StatusArm(m, rx)
    [] m.kind = "Regex" -> [err |-> FALSE] @@ MatchRegex(m, target)
    [] OTHER -> ReservedArm(m)

\* Matcher::negative
Negative(m, is_match) == IF m.negative THEN ~is_match ELSE is_match

\* the negate flag is not applied
NormalizeNegativeSkipped(m, is_match) == is_match

\* let is_match = matcher.negative(is_match);
NormalizeNegative(m, is_match) == Negative(m, is_match)

\* OnFalse without the break under And
OnFalseNoBreak(op, st) ==
  IF op.matchers_condition = "Or"
    THEN [st EXCEPT !.ctl = "continue"]
    ELSE [st EXCEPT !.result.matched = FALSE, !.ctl = "continue"]

\* if !is_match { match self.matchers_condition { Or => continue, And => {...; break} } }
OnFalse(op, st) ==
  IF op.matchers_condition = "Or"
    THEN [st EXCEPT !.ctl = "continue"]
    ELSE [st EXCEPT !.result.matched = FALSE, !.ctl = "break"]

\* OnTrue that does not read stop_at_first_match
OnTrueNoStop(op, m, mw, st) ==
  LET named == IF m.name # NoName
                 THEN [st EXCEPT !.result.name = @ \cup {m.name}]
                 ELSE st
      worded == [named EXCEPT !.result.matcher_word = @ \o mw]
  IN IF op.matchers_condition = "Or"
       THEN [worded EXCEPT !.result.matched = TRUE, !.ctl = "continue"]
       ELSE [worded EXCEPT !.ctl = "continue"]

\* OnTrue where stop_at_first_match leaves the loop under And as well
OnTrueStopAlways(op, m, mw, st) ==
  LET named == IF m.name # NoName
                 THEN [st EXCEPT !.result.name = @ \cup {m.name}]
                 ELSE st
      worded == [named EXCEPT !.result.matcher_word = @ \o mw]
      left == [worded EXCEPT !.ctl = IF op.stop_at_first_match
                                       THEN "break" ELSE "continue"]
  IN IF op.matchers_condition = "Or"
       THEN [left EXCEPT !.result.matched = TRUE]
       ELSE left

\* OnTrue recording the name and the words of the first true matcher only
OnTrueFirstOnly(op, m, mw, st) ==
  LET named == IF m.name # NoName /\ ~st.result.matched
                 THEN [st EXCEPT !.result.name = @ \cup {m.name}]
                 ELSE st
      worded == IF ~st.result.matched
                  THEN [named EXCEPT !.result.matcher_word = @ \o mw]
                  ELSE named
  IN IF op.matchers_condition = "Or"
       THEN [worded EXCEPT !.result.matched = TRUE,
                           !.ctl = IF op.stop_at_first_match
                                     THEN "break" ELSE "continue"]
       ELSE [worded EXCEPT !.ctl = "continue"]

\* else { name, matcher_word, Or => matched = true, stop_at_first_match => break }
OnTrue(op, m, mw, st) ==
  LET named == IF m.name # NoName
                 THEN [st EXCEPT !.result.name = @ \cup {m.name}]
                 ELSE st
      worded == [named EXCEPT !.result.matcher_word = @ \o mw]
  IN IF op.matchers_condition = "Or"
       THEN [worded EXCEPT !.result.matched = TRUE,
                           !.ctl = IF op.stop_at_first_match
                                     THEN "break" ELSE "continue"]
       ELSE [worded EXCEPT !.ctl = "continue"]

\* One iteration of `for matcher in self.matchers.iter()`; st is
\* [result, matchers, ctl], ctl the way the iteration leaves the loop body:
\* "continue", "break" or "err" (the ? operator returned).
MatcherIter(op, m, target, rx, st) ==
  IF ~GetMatcherWordFromPart(m.part, target)
    THEN [st EXCEPT !.ctl = "err"]
    ELSE LET r == MatcherTypeEval(m, target, rx)
         IN IF r.err
              THEN [st EXCEPT !.ctl = "err"]
              ELSE LET is_match == NormalizeNegative(m, r.is_match)
                       pushed == [st EXCEPT !.matchers = Append(@, is_match)]
                   IN IF ~is_match THEN OnFalse(op, pushed)
                                   ELSE OnTrue(op, m, r.mw, pushed)

\* FinalAnd with any() in the place of all()
FinalAndAny(op, ms, r) ==
  IF op.matchers_condition = "And" /\ \E i \in 1..Len(ms) : ms[i]
    THEN [r EXCEPT !.matched = TRUE]
    ELSE r

\* if matches!(condition, And) && matchers.iter().all(|x| *x) { matched = true }
FinalAnd(op, ms, r) ==
  IF op.matchers_condition = "And" /\ \A i \in 1..Len(ms) : ms[i]
    THEN [r EXCEPT !.matched = TRUE]
    ELSE r

\* ------------------------------------------------------- extractor kinds
\* An extractor e carries `on`, the targets on which its opaque extraction
\* produces `vals` and the version tags `vers`.
ExtractRegex(e, target) ==
  IF target \in e.on THEN [vals |-> e.vals, vers |-> e.vers]
  ELSE [vals |-> {}, vers |-> EmptyMap]

ExtractJson(e, target) ==
  IF target \in e.on THEN [vals |-> e.vals, vers |-> EmptyMap]
  ELSE [vals |-> {}, vers |-> EmptyMap]

\* match &extractor.extractor_type { ... }
ExtractorTypeEval(e, target) ==
  CASE e.kind = "Regex" -> ExtractRegex(e, target)
    [] e.kind = "JSON" -> ExtractJson(e, target)
    [] OTHER -> [vals |-> {}, vers |-> EmptyMap]

\* extractor.name.clone().unwrap_or(index.to_string()); index counts from 0
ExtractKey(e, index) == IF e.name # NoName THEN e.name ELSE ToString(index - 1)

\* A merge without the is_empty test: an empty set gets its key too.
MergeNamedAlways(er, key, vals) ==
  [k \in DOMAIN er \cup {key} |->
     IF k = key
       THEN (IF k \in DOMAIN er THEN er[k] ELSE {}) \cup vals
       ELSE er[k]]

\* A merge that always inserts: the set the key held is lost.
MergeNamedInsert(er, key, vals) ==
  IF vals # {}
    THEN [k \in DOMAIN er \cup {key} |-> IF k = key THEN vals ELSE er[k]]
    ELSE er

\* if !extract_result.is_empty() { get_mut(&key) extend / insert }
MergeNamed(er, key, vals) ==
  IF vals # {}
    THEN [k \in DOMAIN er \cup {key} |->
            IF k = key
              THEN (IF k \in DOMAIN er THEN er[k] ELSE {}) \cup vals
              ELSE er[k]]
    ELSE er

\* Version tags that join the set their key holds.
MergeVersionExtend(er, vers) ==
  [k \in DOMAIN er \cup DOMAIN vers |->
     IF k \in DOMAIN vers
       THEN (IF k \in DOMAIN er THEN er[k] ELSE {}) \cup {vers[k]}
       ELSE er[k]]

\* for (k, v) in version { extract_result.insert(k, HashSet::from_iter([v])) }
MergeVersion(er, vers) ==
  [k \in DOMAIN er \cup DOMAIN vers |->
     IF k \in DOMAIN vers THEN {vers[k]} ELSE er[k]]

\* The iteration up to the merge of the extracted values
NamedPart(e, index, target, r) ==
  [r EXCEPT !.extract_result =
     MergeNamed(@, ExtractKey(e, index), ExtractorTypeEval(e, target).vals)]

\* The iteration from the version tags on
VersionPart(e, target, r) ==
  [r EXCEPT !.extract_result =
     MergeVersion(@, ExtractorTypeEval(e, target).vers)]

\* One iteration of `for (index, extractor) in self.extractors.iter().enumerate()`
ExtractorIter(e, index, target, r) ==
  IF ~GetMatcherWordFromPart(e.part, target)
    THEN r
    ELSE VersionPart(e, target, NamedPart(e, index, target, r))

\* ------------------------------------------------------- the passes
\* The target a pass reads: matcher_request reads the request, matcher reads
\* results.response().unwrap_or_default().
TargetOf(p) ==
  IF p = "request" THEN "request"
  ELSE IF sinkResp THEN "response" ELSE "default"

\* response_for_extensions of a pass: matcher_request hands on its optional
\* response (matcher_both gives Some), matcher gives Some(response).
RxOf(p) ==
  IF p = "request"
    THEN IF entry = "matcher_both" \/ respArg THEN "response" ELSE "none"
    ELSE TargetOf(p)

Target == TargetOf(pass)

Rx == RxOf(pass)

\* the response pass first
BothPassesSwapped == <<"response", "request">>

\* matcher_both: self.matcher_request(..) and then self.matcher(results)
BothPasses == <<"request", "response">>

\* Operators::matcher_generic as a whole, from matcher i on: [result, matchers, ctl]
\* matcher_generic without its early return
EarlyReturnNever(op) == FALSE

\* if self.matchers.is_empty() { return Ok(()); }
EarlyReturn(op) == Len(op.matchers) = 0

RECURSIVE MatcherLoop(_, _, _, _, _)
MatcherLoop(op, i, target, rx, st) ==
  IF i > Len(op.matchers)
    THEN st
    ELSE LET nx == MatcherIter(op, op.matchers[i], target, rx,
                               [st EXCEPT !.ctl = "continue"])
         IN IF nx.ctl = "continue"
              THEN MatcherLoop(op, i + 1, target, rx, nx)
              ELSE nx

\* [ok, result]: ok is FALSE when matcher_generic returns Err
matcher_generic(op, target, rx, r) ==
  IF EarlyReturn(op)
    THEN [ok |-> TRUE, result |-> r]
    ELSE LET st == MatcherLoop(op, 1, target, rx,
                     [result |-> r, matchers |-> <<>>, ctl |-> "continue"])
         IN IF st.ctl = "err"
              THEN [ok |-> FALSE, result |-> st.result]
              ELSE [ok |-> TRUE, result |-> FinalAnd(op, st.matchers, st.result)]

\* a retrieval failure leaves the loop
ExtractorNextAbort(e, index, target, n) ==
  IF GetMatcherWordFromPart(e.part, target) THEN index + 1 ELSE n + 1

\* continue: the extractor the loop goes on with
ExtractorNext(e, index, target, n) == index + 1

\* Operators::extractor_generic as a whole, from extractor i on
RECURSIVE extractor_generic(_, _, _, _)
extractor_generic(op, i, target, r) ==
  IF i > Len(op.extractors)
    THEN r
    ELSE extractor_generic(op,
           ExtractorNext(op.extractors[i], i, target, Len(op.extractors)),
           target, ExtractorIter(op.extractors[i], i, target, r))

\* a matcher error leaves the `for operator` loop
AfterErrAbort(b) == Len(ops) + 1

\* if let Err(_err) = operator.matcher(..) { continue; }: the block the
\* `for operator` loop goes on with.
AfterErr(b) == b + 1

\* if result.is_matched() || result.is_extract() { results.push(..) }
\* A push that looks at the matchers only.
QualifiesMatchedOnly(r) == is_matched(r)

\* if result.is_matched() || result.is_extract()
Qualifies(r) == is_matched(r) \/ is_extract(r)

Event(r) == [template |-> Template, info |-> Info, result |-> r]

\* ------------------------------------------------------------- inputs
Matcher(kind, part, name, negative, hit, word) ==
  [kind |-> kind, part |-> part, name |-> name, negative |-> negative,
   hit |-> hit, word |-> word]

Extractor(kind, part, name, on, vals, vers) ==
  [kind |-> kind, part |-> part, name |-> name, on |-> on, vals |-> vals,
   vers |-> vers]

Operators(stop, cond, ms, es) ==
  [stop_at_first_match |-> stop, matchers_condition |-> cond,
   matchers |-> ms, extractors |-> es]

SeqsUpTo(S, n) == UNION {[1..k -> S] : k \in 0..n}

\* Lists of one matcher of every kind, part, polarity and outcome.
RichMatchers ==
  {Matcher(k, p, "a", n, h, "w1") :
     k \in Kinds, p \in Parts, n \in BOOLEAN, h \in {{}, Targets}}

\* Matchers for the longer lists: two that are true, one that is false, one
\* true by negation, one whose part may be missing, one favicon matcher.
CoreMatchers ==
  {Matcher("Word", "body", "a", FALSE, Targets, "w1"),
   Matcher("Word", "body", "b", FALSE, Targets, "w2"),
   Matcher("Word", "body", "c", FALSE, {}, "w3"),
   Matcher("Regex", "body", NoName, TRUE, {}, "w4"),
   Matcher("Word", "header", "e", FALSE, Targets, "w5"),
   Matcher("Favicon", "body", "f", FALSE, Targets, "w6"),
   Matcher("Status", "body", "g", TRUE, {}, "w7")}

\* One extractor of every kind, part, naming and outcome.
RichExtractors ==
  {Extractor(k, p, n, Targets, v, t) :
     k \in ExtractorKinds, p \in Parts, n \in {NoName, "k"},
     v \in {{}, {"v1"}}, t \in {EmptyMap, [x \in {"ver"} |-> "1.0"]}}

\* Extractors for the longer lists: named and unnamed, one whose part may
\* be missing, one of a reserved kind, with and without version tags (one
\* tag under the key another extractor is named by).
CoreExtractors ==
  {Extractor("Regex", "body", "k", Targets, {"v1"}, EmptyMap),
   Extractor("Regex", "body", NoName, Targets, {"v2"}, EmptyMap),
   Extractor("Regex", "header", "h", Targets, {"v3"}, EmptyMap),
   Extractor("JSON", "body", "k", Targets, {"v2", "v4"}, EmptyMap),
   Extractor("KVal", "body", "k", Targets, {"v5"}, EmptyMap),
   Extractor("Regex", "body", NoName, Targets, {}, [x \in {"ver"} |-> "1.0"]),
   Extractor("Regex", "body", "r", Targets, {"v6"}, [x \in {"k"} |-> "2.0"]),
   Extractor("Regex", "body", "q", {"request"}, {"v7"}, EmptyMap)}

\* Blocks for the lists of blocks: one that matches everywhere, one that
\* matches the request only, one that matches the response only, one whose
\* matcher reads the header, one favicon block, one that never matches, one
\* that only extracts, one that records a name before its header matcher.
CoreBlocks ==
  {Operators(FALSE, "Or",
     <<Matcher("Word", "body", "a", FALSE, Targets, "w1")>>, <<>>),
   Operators(FALSE, "Or",
     <<Matcher("Word", "body", "b", FALSE, {"request"}, "w2")>>,
     <<Extractor("Regex", "body", "k", {"request"}, {"v1"}, EmptyMap)>>),
   Operators(FALSE, "And",
     <<Matcher("Regex", "body", "c", FALSE, {"response"}, "w3")>>, <<>>),
   Operators(FALSE, "Or",
     <<Matcher("Word", "header", "e", FALSE, Targets, "w5")>>,
     <<Extractor("Regex", "body", "k", Targets, {"v2"}, EmptyMap)>>),
   Operators(FALSE, "Or",
     <<Matcher("Favicon", "body", "f", FALSE, Targets, "w6")>>, <<>>),
   Operators(FALSE, "Or",
     <<Matcher("Word", "body", "d", FALSE, {}, "w4")>>, <<>>),
   Operators(FALSE, "Or", <<>>,
     <<Extractor("Regex", "body", NoName, Targets, {"v3"}, EmptyMap)>>),
   Operators(FALSE, "Or",
     <<Matcher("Word", "body", "a", FALSE, Targets, "w1"),
       Matcher("Word", "header", "e", FALSE, Targets, "w5")>>,
     <<Extractor("Regex", "body", "k", Targets, {"v2"}, EmptyMap)>>)}

\* The header cannot be produced from the targets of T.
NoHeader(T) == {<<t, "header">> : t \in T}

Env(e, ra, sr, hf, un) ==
  [entry |-> e, respArg |-> ra, sinkResp |-> sr, hasFav |-> hf,
   unavailable |-> un]

\* One call of matcher_request or of matcher; a field the call does not read
\* is FALSE.
SingleEnvs(U) ==
  {Env("matcher_request", ra, FALSE, hf, un) :
     ra \in BOOLEAN, hf \in BOOLEAN, un \in U}
  \cup {Env("matcher", FALSE, sr, hf, un) :
     sr \in BOOLEAN, hf \in BOOLEAN, un \in U}

\* One call of matcher_both: its response argument is Some.
BothEnvs(U) ==
  {Env("matcher_both", TRUE, sr, hf, un) :
     sr \in BOOLEAN, hf \in BOOLEAN, un \in U}

HeaderChoices ==
  {NoHeader({}), NoHeader({"request"}), NoHeader({"response", "default"})}

\* ------------------------------------------------------------ ClusterType
MaxBucket == 2
MaxTemplates == 3

\* Option<T>: None, or Some(x)
None == <<>>
Some(x) == <<x>>

\* #[derive(Default)] ClusterType
DefaultClusterType ==
  [web_default |-> <<>>, web_favicon |-> <<>>, web_other |-> <<>>,
   tcp_default |-> None, tcp_other |-> EmptyMap, port_range |-> EmptyMap]

\* ClusterExecute: the probe, the weight, the ClusteredOperators (by template)
ClusterExecute(requests, rarity, operators) ==
  [requests |-> requests, rarity |-> rarity, operators |-> operators]

\* count() that takes port_range for a bucket
countWithPortRange(c) ==
  Len(c.web_default) + Len(c.web_other) + Len(c.web_favicon)
    + Cardinality(DOMAIN c.tcp_other) + Cardinality(DOMAIN c.port_range)
    + (IF c.tcp_default # None THEN 1 ELSE 0)

\* ClusterType::count
count(c) ==
  LET n == Len(c.web_default) + Len(c.web_other) + Len(c.web_favicon)
             + Cardinality(DOMAIN c.tcp_other)
  IN IF c.tcp_default # None THEN n + 1 ELSE n

NoClusters == ct = DefaultClusterType /\ counted = -1 /\ loaded = <<>>

Evaluator(blocks, env) ==
  /\ ops = blocks
  /\ entry = env.entry
  /\ respArg = env.respArg
  /\ sinkResp = env.sinkResp
  \* the hash map is an extension of the response: none without a response
  /\ hasFav = env.hasFav /\ (env.hasFav => env.respArg \/ env.sinkResp)
  /\ unavailable = env.unavailable
  /\ pc = "idle"
  /\ pass = "none"
  /\ bi = 0
  /\ mi = 0
  /\ matchers = <<>>
  /\ mstat = "none"
  /\ ei = 0
  /\ result = DefaultResult
  /\ sink = <<>>
  /\ origin = <<>>
  /\ evaluated = <<>>

Started(blocks, env) == Evaluator(blocks, env) /\ NoClusters

\* One block with one matcher of any kind.
InitKinds ==
  \E m \in RichMatchers, cond \in Conditions,
     env \in SingleEnvs(HeaderChoices) :
    Started(<<Operators(FALSE, cond, <<m>>, <<>>)>>, env)

\* One block with up to MaxMatchers matchers.
InitLists ==
  \E ms \in SeqsUpTo(CoreMatchers, MaxMatchers), cond \in Conditions,
     stop \in BOOLEAN, env \in SingleEnvs({NoHeader(Targets)}) :
    Started(<<Operators(stop, cond, ms, <<>>)>>, env)

\* One block with no matcher and one extractor of any kind.
InitExtractorKinds ==
  \E e \in RichExtractors, env \in SingleEnvs(HeaderChoices) :
    Started(<<Operators(FALSE, "Or", <<>>, <<e>>)>>, env)

\* One block with no matcher and up to MaxExtractors extractors.
InitExtractorLists ==
  \E es \in SeqsUpTo(CoreExtractors, MaxExtractors), cond \in Conditions,
     env \in SingleEnvs({NoHeader(Targets)}) :
    Started(<<Operators(FALSE, cond, <<>>, es)>>, env)

\* Up to MaxBlocks blocks, under every entry point.
InitBlocks ==
  \E bs \in SeqsUpTo(CoreBlocks, MaxBlocks),
     env \in SingleEnvs(HeaderChoices) \cup BothEnvs(HeaderChoices) :
    Started(bs, env)

Init ==
  \/ InitKinds
  \/ InitLists
  \/ InitExtractorKinds
  \/ InitExtractorLists
  \/ InitBlocks

\* ------------------------------------------------------------- actions
Enter(p) ==
  /\ pass' = p
  /\ bi' = 1
  /\ pc' = "block"
  /\ UNCHANGED <<cfg, mi, matchers, mstat, ei, result, sink, origin, evaluated>>

\* ClusteredOperator::matcher
CallMatcher == pc = "idle" /\ entry = "matcher" /\ Enter("response")

\* ClusteredOperator::matcher_request
CallMatcherRequest == pc = "idle" /\ entry = "matcher_request" /\ Enter("request")

\* ClusteredOperator::matcher_both: the request pass
CallMatcherBoth == pc = "idle" /\ entry = "matcher_both" /\ Enter(BothPasses[1])

\* matcher_both: self.matcher(results) after the request pass
SecondPass ==
  /\ pc = "block" /\ bi > Len(ops)
  /\ entry = "matcher_both" /\ pass = BothPasses[1]
  /\ Enter(BothPasses[2])

\* the `for operator` loop is over
PassEnd ==
  /\ pc = "block" /\ bi > Len(ops)
  /\ ~(entry = "matcher_both" /\ pass = BothPasses[1])
  /\ pc' = "done"
  /\ UNCHANGED <<cfg, pass, bi, mi, matchers, mstat, ei, result, sink, origin,
                 evaluated>>

\* let mut result = OperatorResult::default(); operator.matcher_generic(..)
\* up to its loop: an empty matcher list returns Ok at once.
BlockBegin ==
  /\ pc = "block" /\ bi <= Len(ops)
  /\ result' = DefaultResult
  /\ matchers' = <<>>
  /\ evaluated' = <<>>
  /\ IF EarlyReturn(ops[bi])
       THEN mi' = 0 /\ mstat' = "ok" /\ pc' = "returned"
       ELSE IF Len(ops[bi].matchers) = 0
         THEN mi' = 0 /\ mstat' = "run" /\ pc' = "final"
         ELSE mi' = 1 /\ mstat' = "run" /\ pc' = "match"
  /\ UNCHANGED <<cfg, pass, bi, ei, sink, origin>>

\* one iteration of matcher_generic's loop
MatcherStep ==
  /\ pc = "match"
  /\ LET op == ops[bi]
         st == MatcherIter(op, op.matchers[mi], Target, Rx,
                           [result |-> result, matchers |-> matchers,
                            ctl |-> "continue"])
     IN /\ result' = st.result
        /\ matchers' = st.matchers
        /\ evaluated' = Append(evaluated, mi)
        /\ IF st.ctl = "err"
             THEN mi' = 0 /\ mstat' = "err" /\ pc' = "returned"
             ELSE IF st.ctl = "break" \/ mi = Len(op.matchers)
               THEN mi' = 0 /\ mstat' = "run" /\ pc' = "final"
               ELSE mi' = mi + 1 /\ mstat' = "run" /\ pc' = "match"
  /\ UNCHANGED <<cfg, pass, bi, ei, sink, origin>>

\* matcher_generic after its loop
MatcherFinal ==
  /\ pc = "final"
  /\ result' = FinalAnd(ops[bi], matchers, result)
  /\ mstat' = "ok"
  /\ pc' = "returned"
  /\ UNCHANGED <<cfg, pass, bi, mi, matchers, ei, sink, origin, evaluated>>

\* The Err is dropped and the block goes on to its extractors.
OnMatcherErrFallsThrough ==
  /\ pc = "returned" /\ mstat = "err"
  /\ ei' = 1
  /\ pc' = "extract"
  /\ mstat' = "none"
  /\ UNCHANGED <<cfg, pass, bi, mi, matchers, result, sink, origin, evaluated>>

\* if let Err(_err) = .. { continue; }
OnMatcherErr ==
  /\ pc = "returned" /\ mstat = "err"
  /\ bi' = AfterErr(bi)
  /\ pc' = "block"
  /\ mstat' = "none"
  /\ UNCHANGED <<cfg, pass, mi, matchers, ei, result, sink, origin, evaluated>>

\* operator.extractor_generic(..) is entered
ExtractorCall ==
  /\ pc = "returned" /\ mstat = "ok"
  /\ ei' = 1
  /\ pc' = "extract"
  /\ mstat' = "none"
  /\ UNCHANGED <<cfg, pass, bi, mi, matchers, result, sink, origin, evaluated>>

\* one iteration of extractor_generic's loop, up to the merge of the
\* extracted values; an extractor whose part is not retrieved ends it
ExtractorStep ==
  /\ pc = "extract" /\ ei <= Len(ops[bi].extractors)
  /\ LET e == ops[bi].extractors[ei]
     IN IF ~GetMatcherWordFromPart(e.part, Target)
          THEN /\ ei' = ExtractorNext(e, ei, Target, Len(ops[bi].extractors))
               /\ UNCHANGED <<result, pc>>
          ELSE /\ result' = NamedPart(e, ei, Target, result)
               /\ pc' = "version"
               /\ UNCHANGED ei
  /\ UNCHANGED <<cfg, pass, bi, mi, matchers, mstat, sink, origin, evaluated>>

\* the rest of the iteration: the version tags
VersionStep ==
  /\ pc = "version"
  /\ LET e == ops[bi].extractors[ei]
     IN /\ result' = VersionPart(e, Target, result)
        /\ ei' = ExtractorNext(e, ei, Target, Len(ops[bi].extractors))
  /\ pc' = "extract"
  /\ UNCHANGED <<cfg, pass, bi, mi, matchers, mstat, sink, origin, evaluated>>

\* if result.is_matched() || result.is_extract() { results.push(..) }
Report ==
  /\ pc = "extract" /\ ei > Len(ops[bi].extractors)
  /\ IF Qualifies(result)
       THEN sink' = Append(sink, Event(result))
            /\ origin' = Append(origin, <<pass, bi>>)
       ELSE UNCHANGED <<sink, origin>>
  /\ bi' = bi + 1
  /\ ei' = 0
  /\ pc' = "block"
  /\ UNCHANGED <<cfg, pass, mi, matchers, mstat, result, evaluated>>

Next ==
  \/ CallMatcher
  \/ CallMatcherRequest
  \/ CallMatcherBoth
  \/ SecondPass
  \/ PassEnd
  \/ BlockBegin
  \/ MatcherStep
  \/ MatcherFinal
  \/ OnMatcherErr
  \/ ExtractorCall
  \/ ExtractorStep
  \/ VersionStep
  \/ Report

Spec == Init /\ [][Next]_vars

\* ------------------------------------------------ ClusterType::count alone
\* The evaluator at rest, of no part in what the ClusterType does.
EvaluatorIdle == Evaluator(<<>>, Env("matcher", FALSE, FALSE, FALSE, {}))

ClusterPool ==
  {ClusterExecute("GET /", 1, <<"t1">>),
   ClusterExecute("GET /admin", 2, <<"t1", "t2">>)}

TcpKeys == {"null", "http"}
PortRanges == {None, Some("1-1024")}

\* Every ClusterType of the bounds: its fields are public and independent,
\* port_range has keys of its own.
ClusterTypes ==
  {[web_default |-> wd, web_favicon |-> wf, web_other |-> wo,
    tcp_default |-> td,
    tcp_other |-> [k \in ko |-> ClusterExecute(k, 1, <<"t3">>)],
    port_range |-> [k \in kp |-> pr]] :
     wd \in SeqsUpTo(ClusterPool, MaxBucket),
     wf \in SeqsUpTo(ClusterPool, MaxBucket),
     wo \in SeqsUpTo(ClusterPool, MaxBucket),
     td \in {None} \cup {Some(c) : c \in ClusterPool},
     ko \in SUBSET TcpKeys, kp \in SUBSET TcpKeys, pr \in PortRanges}

InitCount ==
  /\ EvaluatorIdle
  /\ ct \in ClusterTypes
  /\ counted = -1
  /\ loaded = <<>>

Count ==
  /\ counted = -1
  /\ counted' = count(ct)
  /\ UNCHANGED <<ct, loaded, evalVars>>

NextCount == Count

SpecCount == InitCount /\ [][NextCount]_vars

\* ------------------------------------------------------------ clustering
\* A probe definition: web or TCP, its bytes (sig stands for all of them,
\* the port constraint of a TCP probe included), and that port constraint.
Probe(kind, sig, ports) == [kind |-> kind, sig |-> sig, ports |-> ports]

DefaultWebProbe == "GET /"
FaviconProbes == {"GET /favicon.ico"}
DefaultTcpProbe == "tcp null"

Probes ==
  {Probe("web", DefaultWebProbe, None),
   Probe("web", "GET /favicon.ico", None),
   Probe("web", "GET /admin", None),
   Probe("web", "GET /login", None),
   Probe("tcp", DefaultTcpProbe, None),
   Probe("tcp", "tcp HELP", None),
   Probe("tcp", "tcp HELP 1-1024", Some("1-1024"))}

TemplateNames == {"t1", "t2"}

\* The bucket of a probe.
BucketOf(p) ==
  IF p.kind = "web"
  THEN IF p.sig = DefaultWebProbe THEN "web_default"
       ELSE IF p.sig \in FaviconProbes THEN "web_favicon"
       ELSE "web_other"
  ELSE IF p.sig = DefaultTcpProbe THEN "tcp_default" ELSE "tcp_other"

\* A clustering that never shares a cluster.
AddToListAlone(list, sig, t) == Append(list, ClusterExecute(sig, 1, <<t>>))

\* The template joins the cluster of its probe, or opens one.
AddToList(list, sig, t) ==
  IF \E i \in DOMAIN list : list[i].requests = sig
  THEN [i \in DOMAIN list |->
          IF list[i].requests = sig
          THEN [list[i] EXCEPT !.operators = Append(@, t)]
          ELSE list[i]]
  ELSE Append(list, ClusterExecute(sig, 1, <<t>>))

AddToDefault(td, sig, t) ==
  IF td = None
  THEN Some(ClusterExecute(sig, 1, <<t>>))
  ELSE Some([td[1] EXCEPT !.operators = Append(@, t)])

AddToMap(map, sig, t) ==
  [k \in DOMAIN map \cup {sig} |->
     IF k # sig THEN map[k]
     ELSE IF sig \in DOMAIN map
          THEN [map[sig] EXCEPT !.operators = Append(@, t)]
          ELSE ClusterExecute(sig, 1, <<t>>)]

AddPortRange(map, sig, ports) ==
  [k \in DOMAIN map \cup {sig} |-> IF k = sig THEN ports ELSE map[k]]

Cluster(c, t, p) ==
  LET b == BucketOf(p)
  IN CASE b = "web_default" ->
            [c EXCEPT !.web_default = AddToList(@, p.sig, t)]
       [] b = "web_favicon" ->
            [c EXCEPT !.web_favicon = AddToList(@, p.sig, t)]
       [] b = "web_other" ->
            [c EXCEPT !.web_other = AddToList(@, p.sig, t)]
       [] b = "tcp_default" ->
            [c EXCEPT !.tcp_default = AddToDefault(@, p.sig, t)]
       [] b = "tcp_other" ->
            [c EXCEPT !.tcp_other = AddToMap(@, p.sig, t),
                      !.port_range = AddPortRange(@, p.sig, p.ports)]

InitCluster ==
  /\ EvaluatorIdle
  /\ NoClusters

\* One template is clustered by one of its probes.
ClusterTemplate ==
  /\ Len(loaded) < MaxTemplates
  /\ \E t \in TemplateNames, p \in Probes :
       /\ \A i \in DOMAIN loaded : loaded[i] # <<t, p.sig>>
       /\ ct' = Cluster(ct, t, p)
       /\ loaded' = Append(loaded, <<t, p.sig>>)
  /\ counted' = -1
  /\ UNCHANGED evalVars

NextCluster ==
  \/ ClusterTemplate
  \/ Count

SpecCluster == InitCluster /\ [][NextCluster]_vars

\* ------------------------------------------------------------- properties
\* The block whose evaluation runs, and where its evaluation stands.
Op == ops[bi]

InBlock == pc \in {"match", "final", "returned", "extract", "version"}

\* matcher_generic has returned Ok / Err and the caller has not yet acted
ReturnedOk == pc = "returned" /\ mstat = "ok"

ReturnedErr == pc = "returned" /\ mstat = "err"

Range(s) == {s[i] : i \in 1..Len(s)}

\* What a matcher is on the running pass, read from its fields.
Retrievable(m) == <<Target, m.part>> \notin unavailable

MapMissing == Rx # "none" /\ ~(Rx = "response" /\ hasFav)

RawTrue(m) ==
  CASE m.kind \in {"Word", "Regex"} -> Target \in m.hit
    [] m.kind \in {"Status", "Favicon"} -> Rx # "none" /\ Rx \in m.hit
    [] OTHER -> FALSE

Errs(m) == ~Retrievable(m) \/ (m.kind = "Favicon" /\ MapMissing)

TrueAfterNegation(m) == ~Errs(m) /\ (RawTrue(m) # m.negative)

FalseAfterNegation(m) == ~Errs(m) /\ (RawTrue(m) = m.negative)

WordsOf(m) ==
  CASE m.kind = "Status" -> IF Rx # "none" THEN <<StatusCode(Rx)>> ELSE <<>>
    [] m.kind \in ReservedKinds -> <<>>
    [] OTHER -> IF RawTrue(m) THEN <<m.word>> ELSE <<>>

\* The names and the words of the true matchers among the first n of ms.
NamesOfTrue(ms, n) ==
  {ms[i].name : i \in {j \in 1..n : TrueAfterNegation(ms[j]) /\ ms[j].name # NoName}}

RECURSIVE WordsOfTrue(_, _)
WordsOfTrue(ms, n) ==
  IF n = 0 THEN <<>>
  ELSE WordsOfTrue(ms, n - 1)
         \o (IF TrueAfterNegation(ms[n]) THEN WordsOf(ms[n]) ELSE <<>>)

TrueOnes(ms) == {i \in 1..Len(ms) : TrueAfterNegation(ms[i])}

\* The first matcher of ms that is false after negation; 0 when there is none.
FirstFalse(ms) ==
  IF \E i \in 1..Len(ms) : FalseAfterNegation(ms[i])
    THEN CHOOSE i \in 1..Len(ms) :
           /\ FalseAfterNegation(ms[i])
           /\ \A j \in 1..(i - 1) : ~FalseAfterNegation(ms[j])
    ELSE 0

\* The first matcher of ms that is true after negation; 0 when there is none.
FirstTrue(ms) ==
  IF TrueOnes(ms) # {}
    THEN CHOOSE i \in TrueOnes(ms) : \A j \in TrueOnes(ms) : i <= j
    ELSE 0

\* C1: under Or without stop_at_first_match, when matcher_generic returns Ok,
\* matched is true exactly when some matcher is true after negation, name
\* holds the names of all the true matchers and matcher_word their words in
\* declaration order.
C1_OrAccumulatesEveryTrueMatcher ==
  (ReturnedOk /\ Op.matchers_condition = "Or" /\ ~Op.stop_at_first_match) =>
    /\ result.matched = (TrueOnes(Op.matchers) # {})
    /\ result.name = NamesOfTrue(Op.matchers, Len(Op.matchers))
    /\ result.matcher_word = WordsOfTrue(Op.matchers, Len(Op.matchers))

\* An Or block without stop whose first matcher is false and whose second
\* and third are true, with two names and two words recorded.
C1_Witness ==
  /\ ReturnedOk /\ Op.matchers_condition = "Or" /\ ~Op.stop_at_first_match
  /\ Len(Op.matchers) = 3
  /\ TrueOnes(Op.matchers) = {2, 3}
  /\ Cardinality(result.name) = 2
  /\ Len(result.matcher_word) = 2
  /\ result.matched

\* C2 (amended): under And with a matcher list that is not empty, when
\* matcher_generic returns Ok from a default result, matched is true exactly
\* when every matcher is true after negation.
C2_AndMatchedIffEveryMatcherTrue ==
  (ReturnedOk /\ Op.matchers_condition = "And" /\ Len(Op.matchers) > 0) =>
    result.matched = (\A i \in 1..Len(Op.matchers) : TrueAfterNegation(Op.matchers[i]))

\* C2 as stated, for any matcher list, the empty one included.
C2_AnyMatcherList ==
  (ReturnedOk /\ Op.matchers_condition = "And") =>
    result.matched = (\A i \in 1..Len(Op.matchers) : TrueAfterNegation(Op.matchers[i]))

\* An And block of three true matchers that has returned matched.
C2_Witness ==
  /\ ReturnedOk /\ Op.matchers_condition = "And"
  /\ Len(Op.matchers) = 3
  /\ TrueOnes(Op.matchers) = {1, 2, 3}
  /\ result.matched

\* C3: under And, once the first matcher that is false after negation has
\* been evaluated the loop is left: no later matcher is evaluated, none
\* raises an error or adds its name or words, and matched is false.
C3_AndFirstFalseHalts ==
  (InBlock /\ Op.matchers_condition = "And" /\ FirstFalse(Op.matchers) # 0) =>
    LET f == FirstFalse(Op.matchers)
    IN /\ \A i \in Range(evaluated) : i <= f
       /\ ~result.matched
       /\ f \in Range(evaluated) =>
            /\ pc # "match"
            /\ mstat # "err"
            /\ result.name = NamesOfTrue(Op.matchers, f - 1)
            /\ result.matcher_word = WordsOfTrue(Op.matchers, f - 1)

\* An And block that returned after its second matcher was false, the third
\* being one whose evaluation would have raised an error.
C3_Witness ==
  /\ ReturnedOk /\ Op.matchers_condition = "And"
  /\ Len(Op.matchers) = 3
  /\ FirstFalse(Op.matchers) = 2
  /\ Errs(Op.matchers[3])
  /\ evaluated = <<1, 2>>
  /\ result.name # {}
  /\ ~result.matched

\* C4 (amended): under Or with stop_at_first_match and at least two matchers
\* true after negation, when no matcher declared before the first true one
\* raises an error, matcher_generic returns Ok with matched true and with
\* the name and the words of the first true matcher only; no matcher after
\* it is evaluated.
C4_StopAtFirstMatchKeepsFirstOnly ==
  LET ms == Op.matchers
      t == FirstTrue(ms)
  IN (/\ InBlock /\ Op.matchers_condition = "Or" /\ Op.stop_at_first_match
      /\ Cardinality(TrueOnes(ms)) >= 2
      /\ \A j \in 1..(t - 1) : ~Errs(ms[j])) =>
       /\ \A i \in Range(evaluated) : i <= t
       /\ pc = "returned" => mstat = "ok" /\ t \in Range(evaluated)
       /\ t \in Range(evaluated) =>
            /\ pc # "match"
            /\ mstat # "err"
            /\ result.matched
            /\ result.name = {ms[t].name} \ {NoName}
            /\ result.matcher_word = WordsOf(ms[t])

\* C4 as stated: whatever precedes the first true matcher.
C4_WhateverPrecedes ==
  LET ms == Op.matchers
      t == FirstTrue(ms)
  IN (/\ pc = "returned" /\ Op.matchers_condition = "Or"
      /\ Op.stop_at_first_match
      /\ Cardinality(TrueOnes(ms)) >= 2) =>
       /\ result.matched
       /\ result.name = {ms[t].name} \ {NoName}
       /\ result.matcher_word = WordsOf(ms[t])
       /\ \A i \in Range(evaluated) : i <= t

\* An Or block with stop_at_first_match that returned after its second
\* matcher, the first being false and the second and third true.
C4_Witness ==
  /\ ReturnedOk /\ Op.matchers_condition = "Or" /\ Op.stop_at_first_match
  /\ Len(Op.matchers) = 3
  /\ TrueOnes(Op.matchers) = {2, 3}
  /\ Op.matchers[2].name # Op.matchers[3].name
  /\ evaluated = <<1, 2>>
  /\ result.name = {Op.matchers[2].name}
  /\ result.matched

\* C5: for a matcher of any kind, the value pushed for the And/Or
\* bookkeeping is the raw boolean of its kind, inverted exactly when its
\* negate flag is set; names, words and the matched flag follow that value.
C5_NegateInvertsRawBoolean ==
  InBlock =>
    LET ms == Op.matchers
        n == Len(matchers)
    IN /\ \A i \in 1..n : matchers[i] = (RawTrue(ms[i]) # ms[i].negative)
       /\ result.name =
            {ms[i].name : i \in {j \in 1..n : (RawTrue(ms[j]) # ms[j].negative)
                                                /\ ms[j].name # NoName}}
       /\ result.matcher_word = WordsOfTrue(ms, n)
       /\ Op.matchers_condition = "Or" =>
            result.matched = (\E i \in 1..n : RawTrue(ms[i]) # ms[i].negative)
       /\ (Op.matchers_condition = "And" /\ pc = "match") =>
            \A i \in 1..n : RawTrue(ms[i]) # ms[i].negative
       /\ (Op.matchers_condition = "And" /\ ReturnedOk /\ Len(ms) > 0) =>
            result.matched =
              (n = Len(ms) /\ \A i \in 1..n : RawTrue(ms[i]) # ms[i].negative)

\* A negated Status matcher whose raw boolean is false: the value pushed is
\* true, its name is recorded and the Or block is matched.
C5_Witness ==
  /\ ReturnedOk /\ Op.matchers_condition = "Or"
  /\ Len(Op.matchers) = 1
  /\ Op.matchers[1].kind = "Status" /\ Op.matchers[1].negative
  /\ Rx = "response" /\ ~RawTrue(Op.matchers[1])
  /\ matchers = <<TRUE>>
  /\ result.name = {Op.matchers[1].name}
  /\ result.matched

\* The Status and Favicon matchers among those whose evaluation was begun.
MetadataMatchers ==
  {k \in 1..Len(evaluated) : Op.matchers[evaluated[k]].kind \in {"Status", "Favicon"}}

\* C6 (amended): on a request-only target (response_for_extensions is None)
\* a Status or Favicon matcher whose part can be retrieved raises no error
\* and its raw boolean is false: the value pushed is its negate flag.
C6_RequestOnlyStatusFaviconFalse ==
  (InBlock /\ Rx = "none") =>
    \A k \in MetadataMatchers :
      Retrievable(Op.matchers[evaluated[k]]) =>
        /\ k <= Len(matchers)
        /\ matchers[k] = Op.matchers[evaluated[k]].negative
        /\ ~(mstat = "err" /\ k = Len(evaluated))

\* C6 as stated: no Status or Favicon matcher ever ends the evaluation with
\* an error on a request-only target.
C6_NeverAnError ==
  (InBlock /\ Rx = "none") =>
    \A k \in MetadataMatchers :
      /\ ~(mstat = "err" /\ k = Len(evaluated))
      /\ k <= Len(matchers) => matchers[k] = Op.matchers[evaluated[k]].negative

\* A Favicon matcher that would hit the response, evaluated on a
\* request-only target: false, no error, nothing recorded.
C6_Witness ==
  /\ ReturnedOk /\ Rx = "none" /\ pass = "request"
  /\ Len(Op.matchers) = 1
  /\ Op.matchers[1].kind = "Favicon" /\ ~Op.matchers[1].negative
  /\ "response" \in Op.matchers[1].hit
  /\ matchers = <<FALSE>>
  /\ result = DefaultResult

\* The matcher is a Favicon matcher evaluated with a response present whose
\* extensions lack the hash map.
FaviconFails(m) == m.kind = "Favicon" /\ Retrievable(m) /\ MapMissing

\* The block raises a matcher error in pass p.
Fails(b, p) == ~matcher_generic(b, TargetOf(p), RxOf(p), DefaultResult).ok

\* C7 (amended): a Favicon matcher evaluated with a response that lacks the
\* hash map makes matcher_generic return an error at once; the result then
\* holds what the matchers before it recorded (it is the default result
\* when none of them was true), extract_result is empty and no event has
\* been pushed for the block, nor is one pushed later: every event in the
\* sink comes from a block whose matchers raised no error.
C7_FaviconWithoutMapAborts ==
  /\ \A k \in 1..Len(origin) : ~Fails(ops[origin[k][2]], origin[k][1])
  /\ InBlock =>
    \A k \in 1..Len(evaluated) :
      FaviconFails(Op.matchers[evaluated[k]]) =>
        LET i == evaluated[k]
        IN /\ ReturnedErr
           /\ k = Len(evaluated)
           /\ Len(matchers) = i - 1
           /\ result.matched =
                (Op.matchers_condition = "Or"
                   /\ \E j \in 1..(i - 1) : TrueAfterNegation(Op.matchers[j]))
           /\ result.name = NamesOfTrue(Op.matchers, i - 1)
           /\ result.matcher_word = WordsOfTrue(Op.matchers, i - 1)
           /\ result.extract_result = EmptyMap
           /\ (\A j \in 1..(i - 1) : ~TrueAfterNegation(Op.matchers[j]))
                => result = DefaultResult
           /\ <<pass, bi>> \notin Range(origin)

\* C7 as stated: the result is the default one whatever preceded.
C7_ResultStaysDefault ==
  (ReturnedErr /\ FaviconFails(Op.matchers[evaluated[Len(evaluated)]])) =>
    result = DefaultResult

\* A Favicon matcher without hash map that fails after a true matcher had
\* set matched and recorded its name.
C7_Witness ==
  /\ ReturnedErr
  /\ evaluated = <<1, 2>>
  /\ FaviconFails(Op.matchers[2])
  /\ TrueAfterNegation(Op.matchers[1])
  /\ result.matched
  /\ result.name # {}

\* extractor_generic has run through its loop
Extracted == pc = "extract" /\ ei > Len(Op.extractors)

\* What the first n extractors of es leave in extract_result when those
\* whose part cannot be retrieved are taken out of the list, the others
\* keeping their index.
RECURSIVE WithoutFailing(_, _)
WithoutFailing(es, n) ==
  IF n = 0 THEN DefaultResult
  ELSE IF Retrievable(es[n])
    THEN ExtractorIter(es[n], n, Target, WithoutFailing(es, n - 1))
    ELSE WithoutFailing(es, n - 1)

\* C8: an extractor whose part cannot be retrieved is skipped and nothing
\* else: the loop goes on to the next extractor, and extract_result always
\* holds what the extractors passed so far contribute with the failing ones
\* taken out of the list, each under its own name or index.
C8_ExtractorFailureSkipsOnlyItself ==
  pc = "extract" =>
    /\ ei \in 1..(Len(Op.extractors) + 1)
    /\ result.extract_result = WithoutFailing(Op.extractors, ei - 1).extract_result
    /\ Extracted =>
         result.extract_result =
           WithoutFailing(Op.extractors, Len(Op.extractors)).extract_result

\* Two extractors: the part of the first cannot be retrieved, the second has
\* no name and its values stand under its index, "1".
C8_Witness ==
  /\ Extracted
  /\ Len(Op.extractors) = 2
  /\ ~Retrievable(Op.extractors[1])
  /\ Retrievable(Op.extractors[2])
  /\ Op.extractors[2].name = NoName
  /\ DOMAIN result.extract_result = {"1"}
  /\ result.extract_result["1"] = Op.extractors[2].vals

\* The blocks that raise no matcher error in pass p.
NonFailing(blocks, p) ==
  LET Keep(b) == ~Fails(b, p) IN SelectSeq(blocks, Keep)

\* What a block that raises no error pushes in pass p.
BlockEvents(b, p) ==
  LET m == matcher_generic(b, TargetOf(p), RxOf(p), DefaultResult)
      r == extractor_generic(b, 1, TargetOf(p), m.result)
  IN IF Qualifies(r) THEN <<Event(r)>> ELSE <<>>

\* The events of the blocks, in their order.
RECURSIVE PassEvents(_, _)
PassEvents(blocks, p) ==
  IF blocks = <<>> THEN <<>>
  ELSE BlockEvents(Head(blocks), p) \o PassEvents(Tail(blocks), p)

\* The events of an earlier pass of the same call.
EarlierPass ==
  IF entry = "matcher_both" /\ pass = BothPasses[2]
    THEN PassEvents(NonFailing(ops, BothPasses[1]), BothPasses[1])
    ELSE <<>>

\* C9: a matcher error in a block changes nothing for the other blocks:
\* every block starts from a default result, and when the loop stands at
\* block bi the pass has pushed what the blocks before bi push with the
\* failing ones taken out of the list.
C9_MatcherErrorStaysInItsBlock ==
  /\ (pc = "match" /\ mi = 1) => result = DefaultResult
  /\ pc \in {"block", "done"} =>
       sink = EarlierPass \o PassEvents(NonFailing(SubSeq(ops, 1, bi - 1), pass), pass)
  /\ pc = "done" => bi = Len(ops) + 1

\* A pass over two blocks: the first raised a matcher error, the second
\* pushed its event.
C9_Witness ==
  /\ pc = "done" /\ entry # "matcher_both"
  /\ Len(ops) = 2
  /\ Fails(ops[1], pass)
  /\ origin = <<<<pass, 2>>>>
  /\ Len(sink) = 1

\* What one pass pushes when it runs alone.
AlonePass(p) == PassEvents(NonFailing(ops, p), p)

\* C10: matcher_both pushes the events of the request pass and then those
\* of the response pass, each pass in block order, and all of them: the
\* sink ends as the events of the one pass followed by those of the other.
C10_BothRunsRequestThenResponse ==
  /\ \A i, j \in 1..Len(origin) :
       i < j =>
         /\ origin[i][1] = "response" => origin[j][1] = "response"
         /\ origin[i][1] = origin[j][1] => origin[i][2] < origin[j][2]
  /\ Len(origin) = Len(sink)
  /\ (entry = "matcher_both" /\ pc = "done") =>
       /\ sink = AlonePass("request") \o AlonePass("response")
       /\ Len(sink) = Len(AlonePass("request")) + Len(AlonePass("response"))

\* matcher_both over two blocks, one of which pushed an event in each pass.
C10_Witness ==
  /\ entry = "matcher_both" /\ pc = "done"
  /\ Len(ops) = 2
  /\ Len(sink) = 3
  /\ \E b \in 1..Len(ops) :
       /\ <<"request", b>> \in Range(origin)
       /\ <<"response", b>> \in Range(origin)
  /\ \E i \in 1..Len(sink) : sink[i].result.matched
  /\ origin[1][1] = "request" /\ origin[3][1] = "response"

\* ------------------------------------------------------------------ C11
\* The ClusterExecute values a ClusterType holds, each by its place.
Places(c) ==
  {<<"web_default", i>> : i \in DOMAIN c.web_default}
  \cup {<<"web_favicon", i>> : i \in DOMAIN c.web_favicon}
  \cup {<<"web_other", i>> : i \in DOMAIN c.web_other}
  \cup {<<"tcp_other", k>> : k \in DOMAIN c.tcp_other}
  \cup (IF c.tcp_default # None THEN {<<"tcp_default", 0>>} ELSE {})

\* C11: for every ClusterType, count() is the number of clusters in
\* web_default, web_favicon, web_other and tcp_other, plus one when
\* tcp_default is present; the entries of port_range add nothing to it.
C11_CountIsNumberOfClusters ==
  counted # -1 => counted = Cardinality(Places(ct))

\* count() has returned for a ClusterType with clusters in every bucket, a
\* default TCP cluster, and a port_range key that tcp_other does not have.
C11_Witness ==
  /\ counted # -1
  /\ Len(ct.web_default) > 0 /\ Len(ct.web_favicon) > 0
  /\ Len(ct.web_other) > 0
  /\ ct.tcp_default # None
  /\ DOMAIN ct.tcp_other # {}
  /\ DOMAIN ct.port_range \ DOMAIN ct.tcp_other # {}

\* ------------------------------------------------------------------ C12
At(c, pl) ==
  CASE pl[1] = "web_default" -> c.web_default[pl[2]]
    [] pl[1] = "web_favicon" -> c.web_favicon[pl[2]]
    [] pl[1] = "web_other" -> c.web_other[pl[2]]
    [] pl[1] = "tcp_other" -> c.tcp_other[pl[2]]
    [] pl[1] = "tcp_default" -> c.tcp_default[1]

\* The clusters of a probe signature, and those among them with the template.
ClustersOf(sig) == {pl \in Places(ct) : At(ct, pl).requests = sig}
Holding(t, sig) ==
  {pl \in ClustersOf(sig) :
     \E n \in DOMAIN At(ct, pl).operators : At(ct, pl).operators[n] = t}

\* C12: the clustering partitions the templates by equality of their probe
\* signature: every clustered signature has exactly one cluster, which holds
\* (once each) exactly the templates clustered under it, so that identical
\* probes share one cluster and differing probes are in distinct clusters.
C12_OneClusterPerSignature ==
  /\ \A i \in DOMAIN loaded :
       LET t == loaded[i][1]
           sig == loaded[i][2]
       IN /\ Cardinality(ClustersOf(sig)) = 1
          /\ Holding(t, sig) = ClustersOf(sig)
          /\ \A pl \in ClustersOf(sig) :
               Cardinality({n \in DOMAIN At(ct, pl).operators :
                              At(ct, pl).operators[n] = t}) = 1
  /\ \A i, j \in DOMAIN loaded :
       IF loaded[i][2] = loaded[j][2]
       THEN Holding(loaded[i][1], loaded[i][2])
              = Holding(loaded[j][1], loaded[j][2])
       ELSE Holding(loaded[i][1], loaded[i][2])
              \cap Holding(loaded[j][1], loaded[j][2]) = {}
  /\ \A pl \in Places(ct) :
       \A n \in DOMAIN At(ct, pl).operators :
         \E i \in DOMAIN loaded :
           loaded[i] = <<At(ct, pl).operators[n], At(ct, pl).requests>>
  /\ DOMAIN ct.port_range = DOMAIN ct.tcp_other

\* Two templates of one probe and a third of another: two clusters.
C12_Witness ==
  /\ Len(loaded) = 3
  /\ loaded[1][2] = loaded[2][2]
  /\ loaded[1][1] # loaded[2][1]
  /\ loaded[3][2] # loaded[1][2]
  /\ Cardinality(Places(ct)) = 2
  /\ \E pl \in Places(ct) : Len(At(ct, pl).operators) = 2

\* ------------------------------------------------------------------ C13
\* The last matcher whose evaluation was begun in block b raised the error.
EndedInError(b) ==
  evaluated # <<>> /\ Errs(b.matchers[evaluated[Len(evaluated)]])

\* C13: a matcher whose content cannot be retrieved (its part, or the hash
\* map of a Favicon matcher when a response is present) makes
\* matcher_generic return an error at once: it is the last matcher
\* evaluated. The pass then goes to the next block with no event pushed for
\* this one and without having run its extractors, whatever the matchers
\* before had recorded; no event ever comes from such a block.
C13_RetrievalFailureAbortsBlock ==
  /\ InBlock =>
       \A k \in 1..Len(evaluated) :
         /\ evaluated[k] = k
         /\ Errs(Op.matchers[k]) =>
              /\ ReturnedErr
              /\ k = Len(evaluated)
              /\ Len(matchers) = k - 1
              /\ result.extract_result = EmptyMap
              /\ <<pass, bi>> \notin Range(origin)
  /\ (pc \in {"block", "done"} /\ bi > 1 /\ EndedInError(ops[bi - 1])) =>
       /\ ei = 0
       /\ result.extract_result = EmptyMap
       /\ <<pass, bi - 1>> \notin Range(origin)
  /\ \A k \in 1..Len(origin) : ~Fails(ops[origin[k][2]], origin[k][1])

\* The pass has left a block whose first matcher was true under Or, whose
\* second could not retrieve its part, and whose first extractor would have
\* extracted: matched is set in the abandoned result, the sink is empty.
C13_Witness ==
  /\ pc = "block" /\ bi = 2
  /\ ops[1].matchers_condition = "Or"
  /\ evaluated = <<1, 2>>
  /\ TrueAfterNegation(ops[1].matchers[1])
  /\ ~Retrievable(ops[1].matchers[2])
  /\ Len(ops[1].extractors) > 0
  /\ Retrievable(ops[1].extractors[1])
  /\ ExtractorTypeEval(ops[1].extractors[1], Target).vals # {}
  /\ result.matched
  /\ sink = <<>>

\* ------------------------------------------------------------------ C14
\* The events of pass p, by the index of their block.
BlocksPushed(p) == {origin[k][2] : k \in {j \in 1..Len(origin) : origin[j][1] = p}}

\* Block b, evaluated alone in pass p, ends without error with a result
\* that is matched or holds an extraction.
SucceedsAndQualifies(b, p) ==
  LET m == matcher_generic(b, TargetOf(p), RxOf(p), DefaultResult)
      r == extractor_generic(b, 1, TargetOf(p), m.result)
  IN m.ok /\ (r.matched \/ DOMAIN r.extract_result # {})

\* C14: in one pass every block pushes exactly one event when its matcher
\* evaluation returned Ok and its result is matched or has a non-empty
\* extract_result, and none otherwise; a pass pushes at most as many events
\* as there are blocks, in the order of the blocks, each with the template
\* name and the Info of the ClusteredOperator.
C14_OneEventPerQualifyingBlock ==
  /\ \A i, j \in 1..Len(origin) :
       (i < j /\ origin[i][1] = origin[j][1]) => origin[i][2] < origin[j][2]
  /\ Len(sink) = Len(origin)
  /\ \A k \in 1..Len(sink) :
       /\ sink[k].template = Template
       /\ sink[k].info = Info
       /\ sink[k].result.matched \/ DOMAIN sink[k].result.extract_result # {}
  /\ \A p \in {"request", "response"} :
       /\ BlocksPushed(p) \subseteq 1..Len(ops)
       /\ Cardinality(BlocksPushed(p)) <= Len(ops)
  /\ pc \in {"block", "done"} =>
       /\ \A b \in 1..(bi - 1) :
            b \in BlocksPushed(pass) <=> SucceedsAndQualifies(ops[b], pass)
       /\ bi > 1 =>
            /\ (bi - 1) \in BlocksPushed(pass)
                 <=> /\ ~EndedInError(ops[bi - 1])
                     /\ result.matched \/ DOMAIN result.extract_result # {}
            /\ (bi - 1) \in BlocksPushed(pass) =>
                 sink[Len(sink)] =
                   [template |-> Template, info |-> Info, result |-> result]
  /\ InBlock => bi \notin BlocksPushed(pass)

\* A pass over two blocks is over: the first block has no matcher and
\* pushed its extraction, unmatched; the second raised no error and pushed
\* nothing.
C14_Witness ==
  /\ pc = "done" /\ entry # "matcher_both"
  /\ Len(ops) = 2
  /\ origin = <<<<pass, 1>>>>
  /\ ~sink[1].result.matched
  /\ DOMAIN sink[1].result.extract_result # {}
  /\ ~Fails(ops[2], pass)

\* ------------------------------------------------------------------ C15
\* What an extractor whose part is retrieved produces on the running pass,
\* read from its fields.
Produced(e) ==
  IF e.kind \in {"Regex", "JSON"} /\ Target \in e.on THEN e.vals ELSE {}

ProducedVersion(e) ==
  IF e.kind = "Regex" /\ Target \in e.on THEN e.vers ELSE EmptyMap

\* The name of the extractor at place i (from 1) of the list, or its index
\* (from 0) as a string.
KeyOf(e, i) == IF e.name # NoName THEN e.name ELSE ToString(i - 1)

NamedKeys(n) ==
  {KeyOf(Op.extractors[j], j) :
     j \in {i \in 1..n : Retrievable(Op.extractors[i])
                           /\ Produced(Op.extractors[i]) # {}}}

\* C16 (amended): the step of extractor_generic that takes the version
\* tags stores every entry (k, v) as the singleton {v} under key k, whether
\* or not the extractor produced values, in place of any set that key held
\* (the values a named extraction had recorded under k included); the sets
\* under all other keys are not altered.
C16_VersionTagReplacesItsKey ==
  [][(pc = "version" /\ pc' = "extract") =>
       LET vers == ProducedVersion(Op.extractors[ei])
           old == result.extract_result
           new == result'.extract_result
       IN /\ DOMAIN new = DOMAIN old \cup DOMAIN vers
          /\ \A k \in DOMAIN vers : new[k] = {vers[k]}
          /\ \A k \in DOMAIN old \ DOMAIN vers : new[k] = old[k]]_vars

\* C16 as stated: every entry (k, v) is stored as {v} under k and no set
\* recorded by a named extraction of this or of an earlier extractor is
\* altered.
C16_NamedExtractionsUntouched ==
  [][(pc = "version" /\ pc' = "extract") =>
       LET vers == ProducedVersion(Op.extractors[ei])
           old == result.extract_result
           new == result'.extract_result
       IN /\ \A k \in DOMAIN vers : new[k] = {vers[k]}
          /\ \A k \in NamedKeys(ei) \cap DOMAIN old : new[k] = old[k]]_vars

\* The first extractor recorded its values under its name; the second has
\* a version tag under that very key: after its iteration the key holds
\* the version alone.
C16_Witness ==
  /\ pc = "extract" /\ ei = 3
  /\ Retrievable(Op.extractors[1]) /\ Retrievable(Op.extractors[2])
  /\ Produced(Op.extractors[1]) # {}
  /\ LET k == KeyOf(Op.extractors[1], 1)
         vers == ProducedVersion(Op.extractors[2])
     IN /\ k \in DOMAIN vers
        /\ k # KeyOf(Op.extractors[2], 2)
        /\ result.extract_result[k] = {vers[k]}
        /\ Produced(Op.extractors[1]) \cap result.extract_result[k] = {}

\* ------------------------------------------------------------------ C17
ReservedMatchers ==
  {k \in 1..Len(evaluated) : Op.matchers[evaluated[k]].kind \in ReservedKinds}

ReservedExtractorKinds == {"KVal", "XPath", "DSL"}

\* Every step taken while the loop stands at an extractor of a reserved
\* kind leaves the result as it is, and the loop goes on.
ReservedExtractorIsInert ==
  (/\ pc \in {"extract", "version"}
   /\ ei <= Len(Op.extractors)
   /\ Op.extractors[ei].kind \in ReservedExtractorKinds)
    => /\ result' = result
       /\ pc' \in {"extract", "version"}
       /\ pc = "version" => ei' = ei + 1

\* C17 (amended): a matcher of a reserved kind (None, DSL, Binary, XPath)
\* whose part can be retrieved raises no error and its raw boolean is
\* non-match on every target, whatever it is configured with: the value
\* pushed is its negate flag. An extractor of a reserved kind (KVal, XPath,
\* DSL) extracts nothing, values or version tags, and raises no error.
C17_ReservedKindsAreInert ==
  /\ [](InBlock =>
         \A k \in ReservedMatchers :
           Retrievable(Op.matchers[evaluated[k]]) =>
             /\ k <= Len(matchers)
             /\ matchers[k] = Op.matchers[evaluated[k]].negative
             /\ ~(mstat = "err" /\ k = Len(evaluated)))
  /\ [][ReservedExtractorIsInert]_vars

\* C17 as stated: no matcher of a reserved kind ever ends the evaluation
\* with an error, and the value it pushes is its negate flag.
C17_ReservedNeverAnError ==
  InBlock =>
    \A k \in ReservedMatchers :
      /\ ~(mstat = "err" /\ k = Len(evaluated))
      /\ k <= Len(matchers) => matchers[k] = Op.matchers[evaluated[k]].negative

\* A matcher of a reserved kind that is configured to hit every target has
\* been evaluated: false, no error, nothing recorded.
C17_Witness ==
  /\ ReturnedOk
  /\ Len(Op.matchers) = 1
  /\ Op.matchers[1].kind \in ReservedKinds
  /\ Op.matchers[1].hit = Targets /\ ~Op.matchers[1].negative
  /\ Retrievable(Op.matchers[1])
  /\ matchers = <<FALSE>>
  /\ result = DefaultResult

\* ------------------------------------------------------------------ C18
NoMatchers(b) == Len(b.matchers) = 0

\* C18: with an empty matcher list matcher_generic returns Ok at once and
\* leaves the result as it was, the default one, under And as under Or: no
\* matcher is evaluated, matched stays false, no name and no word is
\* recorded through the extractors' run. The block then pushes an event
\* exactly when its extractors have left a non-empty extract_result.
C18_EmptyMatcherListIsANoOp ==
  /\ (pc = "returned" /\ NoMatchers(Op)) =>
       /\ mstat = "ok"
       /\ result = DefaultResult
       /\ evaluated = <<>> /\ matchers = <<>>
  /\ (pc \in {"extract", "version"} /\ NoMatchers(Op)) =>
       /\ ~result.matched
       /\ result.name = {}
       /\ result.matcher_word = <<>>
  /\ (InBlock /\ NoMatchers(Op)) => pc \in {"returned", "extract", "version"}
  /\ (pc \in {"block", "done"} /\ bi > 1 /\ NoMatchers(ops[bi - 1])) =>
       /\ ~result.matched
       /\ (bi - 1) \in BlocksPushed(pass)
            <=> DOMAIN result.extract_result # {}
       /\ (bi - 1) \in BlocksPushed(pass) =>
            sink[Len(sink)].result = result

\* A block under And with no matcher has pushed its extraction: the event
\* is not matched.
C18_Witness ==
  /\ pc = "block" /\ bi = 2
  /\ NoMatchers(ops[1]) /\ ops[1].matchers_condition = "And"
  /\ origin = <<<<pass, 1>>>>
  /\ ~sink[1].result.matched
  /\ DOMAIN sink[1].result.extract_result # {}

\* ------------------------------------------------------------------ C19
\* The running block with the other value of stop_at_first_match.
FlagFlipped == [Op EXCEPT !.stop_at_first_match = ~@]

\* C19: under And, stop_at_first_match changes nothing: when
\* matcher_generic has returned, its outcome (Ok or Err) and the result
\* (matched, name, matcher_word, extract_result) are those of the same block
\* with the other value of the flag, on the same target.
C19_StopFlagIdleUnderAnd ==
  (pc = "returned" /\ Op.matchers_condition = "And") =>
    LET other == matcher_generic(FlagFlipped, Target, Rx, DefaultResult)
    IN /\ (mstat = "ok") = other.ok
       /\ result = other.result

\* Under And with the flag set, every matcher was true: all of them were
\* evaluated and recorded, the block is matched.
C19_Witness ==
  /\ ReturnedOk
  /\ Op.matchers_condition = "And" /\ Op.stop_at_first_match
  /\ Len(Op.matchers) > 2
  /\ \A i \in 1..Len(Op.matchers) : TrueAfterNegation(Op.matchers[i])
  /\ Len(evaluated) = Len(Op.matchers)
  /\ Cardinality(result.name) > 1
  /\ result.matched

\* ------------------------------------------------------------------ C20
\* The extractors among the first n of the block that have produced a
\* value or a version tag.
Productive(n) ==
  {i \in 1..n :
     /\ Retrievable(Op.extractors[i])
     /\ Produced(Op.extractors[i]) # {}
          \/ DOMAIN ProducedVersion(Op.extractors[i]) # {}}

\* C20: whatever extractors have been evaluated on a result that started
\* as the default one, every key of extract_result holds a non-empty set,
\* in the running result and in every event pushed; and is_extract() is
\* true exactly when one of the extractors evaluated so far has produced a
\* non-empty value set or a version tag.
C20_NoEmptySetUnderAKey ==
  /\ \A k \in DOMAIN result.extract_result : result.extract_result[k] # {}
  /\ \A n \in 1..Len(sink) :
       \A k \in DOMAIN sink[n].result.extract_result :
         sink[n].result.extract_result[k] # {}
  /\ pc = "extract" => (is_extract(result) <=> Productive(ei - 1) # {})
  /\ pc = "version" =>
       (is_extract(result)
          <=> Productive(ei - 1) # {} \/ Produced(Op.extractors[ei]) # {})

\* Two extractors have run: the first produced nothing at all, the second
\* no value but a version tag, and is_extract() is true by that tag alone.
C20_Witness ==
  /\ Extracted
  /\ Len(Op.extractors) = 2
  /\ Retrievable(Op.extractors[1]) /\ Retrievable(Op.extractors[2])
  /\ Produced(Op.extractors[1]) = {} /\ Produced(Op.extractors[2]) = {}
  /\ Op.extractors[1].vals # {}
  /\ Productive(2) = {2}
  /\ is_extract(result)
  /\ \A k \in DOMAIN result.extract_result :
       result.extract_result[k] = {ProducedVersion(Op.extractors[2])[k]}

====
